---- MODULE Spec2Model ----
(***************************************************************************)
(* Job orchestration engine of the coverage improver: the Job entity, the  *)
(* SQLite job table, ImprovementService (startImprovement / cancel) and    *)
(* JobProcessor (processNextJob, executeAnalysisJob, executeImprovementJob)*)
(* driven by the 5 s interval timer of CoreModule.                         *)
(*                                                                         *)
(* Granularity.  The persistence layer is better-sqlite3: every repository *)
(* method has a synchronous body, so an `await repo.x()` resumes in the    *)
(* same microtask drain and no timer or request callback can run in        *)
(* between.  A pipeline is therefore cut into steps only at the awaits of  *)
(* real asynchronous work (clone, install, createBranch, the AI agent, the *)
(* test run, commitAndPush, createPullRequest, cleanupWorkDir); everything *)
(* between two such awaits is one atomic action.                           *)
(***************************************************************************)
EXTENDS Integers, Sequences, FiniteSets, TLC

VARIABLES
  jobs,    \* the jobs table: sequence of rows, index = id = creation order
  exec,    \* per job: the local state of its executeJob invocation
  files,   \* the coverage_files table: file id -> row
  ent,     \* a Job entity under direct method calls (SpecJob)
  env,     \* what the behaviour exercises: "fleet" (several jobs, a well-behaved
           \* agent and git), "single" (one job, every agent and git outcome),
           \* "queue" (more jobs, collaborators that never fail),
           \* "tests" (one job, an agent that writes several test files),
           \* "AI_MAX_RETRIES=n" (one job, a processor configured with n),
           \* "entity" (direct calls on one Job entity),
           \* "agent" (the subprocess and the timer of one agent invocation)
  tick,    \* what processNextJob did, when the last step was a scheduler tick
  call     \* one invocation of the agent subprocess by callClaude (SpecAgent)

vars == <<jobs, exec, files, ent, env, tick, call>>

\* ------------------------------------------------------------------ bounds
MaxJobs == 2           \* jobs ever created in one behaviour
MaxQueue == 3          \* the same, in behaviours whose collaborators never fail
MaxConfiguredRetries == 5   \* the largest AI_MAX_RETRIES a behaviour is run with

\* ------------------------------------------------------- program constants
DefaultMaxRetries == 3          \* AI_MAX_RETRIES default
DefaultCoverageThreshold == 80  \* COVERAGE_THRESHOLD default

\* ------------------------------------------------------------- value sets
Repos == {"r1", "r2"}
NoErr == "none"                 \* no exception
Null == "null"                  \* a null string column
NoFile == <<>>                  \* a null file id
Terminal == {"completed", "failed"}

\* ======================================================== the Job entity ==

\* new Job(props): the defaults of the private constructor
NewJob(type, repositoryId, fileId) ==
  [ type |-> type, repositoryId |-> repositoryId, status |-> "pending",
    progress |-> 0, error |-> Null, filesFound |-> 0, filesBelowThreshold |-> 0,
    fileId |-> fileId, prUrl |-> Null ]

createAnalysis(repositoryId) == NewJob("analysis", repositoryId, NoFile)

createImprovement(repositoryId, fileId) == NewJob("improvement", repositoryId, fileId)

\* JobStatus.canTransitionTo: the status graph of the specification
canTransitionTo(from, to) ==
  \/ from = "pending" /\ to \in {"running", "failed"}
  \/ from = "running" /\ to \in {"completed", "failed"}

\* A method call yields the entity after the call and the error it threw.
Ret(job, err) == [job |-> job, err |-> err]

\* the record of a direct method call on an entity: the entity after the call,
\* the method, its argument and the error raised
Called(op, arg, r) == [job |-> r.job, op |-> op, arg |-> arg, err |-> r.err]

ErrTransition == "Invalid status transition"
ErrNotAnalysis == "completeAnalysis can only be called on analysis jobs"
ErrNotImprovement == "completeImprovement can only be called on improvement jobs"
ErrNotRunning == "Cannot update progress for non-running job"
ErrRange == "Progress must be between 0 and 100"

transitionTo_unguarded(job, newStatus) == Ret([job EXCEPT !.status = newStatus], NoErr)

transitionTo(job, newStatus) ==
  IF ~canTransitionTo(job.status, newStatus)
  THEN Ret(job, ErrTransition)
  ELSE Ret([job EXCEPT !.status = newStatus], NoErr)

start(job) ==
  LET t == transitionTo(job, "running")
  IN IF t.err # NoErr THEN t ELSE Ret([t.job EXCEPT !.progress = 0], NoErr)

updateProgress_unchecked(job, progress) == Ret([job EXCEPT !.progress = progress], NoErr)

updateProgress(job, progress) ==
  IF job.status # "running" THEN Ret(job, ErrNotRunning)
  ELSE IF progress < 0 \/ progress > 100 THEN Ret(job, ErrRange)
  ELSE Ret([job EXCEPT !.progress = progress], NoErr)

completeAnalysis_untyped(job, filesFound, filesBelowThreshold) ==
  LET t == transitionTo(job, "completed")
  IN IF t.err # NoErr THEN t
     ELSE Ret([t.job EXCEPT !.progress = 100, !.filesFound = filesFound,
                            !.filesBelowThreshold = filesBelowThreshold], NoErr)

completeAnalysis(job, filesFound, filesBelowThreshold) ==
  IF job.type # "analysis" THEN Ret(job, ErrNotAnalysis)
  ELSE LET t == transitionTo(job, "completed")
       IN IF t.err # NoErr THEN t
          ELSE Ret([t.job EXCEPT !.progress = 100, !.filesFound = filesFound,
                                 !.filesBelowThreshold = filesBelowThreshold], NoErr)

completeImprovement_noProgress(job, prUrl) ==
  IF job.type # "improvement" THEN Ret(job, ErrNotImprovement)
  ELSE LET t == transitionTo(job, "completed")
       IN IF t.err # NoErr THEN t ELSE Ret([t.job EXCEPT !.prUrl = prUrl], NoErr)

completeImprovement(job, prUrl) ==
  IF job.type # "improvement" THEN Ret(job, ErrNotImprovement)
  ELSE LET t == transitionTo(job, "completed")
       IN IF t.err # NoErr THEN t
          ELSE Ret([t.job EXCEPT !.prUrl = prUrl, !.progress = 100], NoErr)

fail(job, error) ==
  LET t == transitionTo(job, "failed")
  IN IF t.err # NoErr THEN t ELSE Ret([t.job EXCEPT !.error = error], NoErr)

\* ================================================== paths and files ==

\* A path is <<stem, inner suffix, extension>>: src/a.test.ts = <<"src/a", "test", "ts">>
SourcePath == <<"src/a", "", "ts">>     \* the tracked source file of a repository
TestPath == <<"src/a", "test", "ts">>   \* its expected test file
SpecPath == <<"src/a", "spec", "ts">>   \* a test file under the other convention
NotesPath == <<"notes", "", "md">>      \* an untracked file that is not a test
OtherPath == <<"src/b", "", "ts">>      \* a second source file of a repository
NoPath == <<>>
AgentPaths == {TestPath, SourcePath, NotesPath}   \* what the agent may write
TestPaths == {TestPath, SpecPath}       \* the test files the agent may write

isTestFile(filePath) ==
  /\ filePath[2] \in {"test", "spec"}
  /\ filePath[3] \in {"ts", "js"}

\* a coverage file id (a uuid): repository, path, and the job that inserted
\* the row (0: a row of an analysis that ran before the behaviour starts)
FileId(r, path, by) == <<r, path, by>>
FileRepo(id) == id[1]
Percentages == {50, 90}                 \* coverage values a report may carry

\* the CoverageFile entity held by a pipeline
NoEnt == [id |-> NoFile, status |-> "pending", pct |-> 0]
FileEntity(id, row) == [id |-> id, status |-> row.status, pct |-> row.pct]

\* CoverageFile state setters
markAsImproving(f) == [f EXCEPT !.status = "improving"]
resetToPending(f) == [f EXCEPT !.status = "pending"]
updateCoverage(f, pct) == [f EXCEPT !.pct = pct]
markAsImproved(f, pct) == [f EXCEPT !.status = "improved", !.pct = pct]

\* ================================================ the pipeline context ==
\* One atomic pipeline step threads a context through its statements:
\* db, cf: the two tables; x: the locals of the invocation; exc: the
\* exception in flight; n: jobRepo.save calls made in this step; bad: which
\* of them throw.

ErrDb == "database error"
ErrUnique == "UNIQUE constraint failed: coverage_files.repository_id, coverage_files.path"
ErrFileNotFound == "Coverage file not found"
ErrRepoNotFound == "Repository not found"
ErrClone == "clone failed"
ErrInstall == "install failed"
ErrBranch == "createBranch failed"
ErrSourceMissing == "Source file not found"
ErrAi == "AI provider failed"
ErrAiTimeout == "Claude CLI timed out"
ErrNoTestFile == "AI failed to create test file after all attempts"
ErrInvalidContent == "AI failed to generate valid test content after all attempts"
ErrTests == "test run failed"
ErrNoTest == "No test file was generated"
ErrInvalidFiles == "Invalid files modified"
ErrPush == "commitAndPush failed"
ErrPr == "createPullRequest failed"
ErrStore == "storing the coverage data failed"
PrUrl == "https://github.com/o/r/pull/1"

Ctx(j, bad) == [id |-> j, db |-> jobs, cf |-> files, x |-> exec[j],
                exc |-> NoErr, n |-> 0, bad |-> bad]

Throw(c, msg) == IF c.exc # NoErr THEN c ELSE [c EXCEPT !.exc = msg]

\* history of an invocation: no coverage report parsed so far (before: the
\* percentage of the target file when the job loaded it; last: whether the
\* last parsed report matched the file, and the percentage it carried; seen:
\* the jobs that were pending when processNextJob selected this one;
\* storing: the report an analysis job has begun to store; tainted: a
\* coverage value was stored from a test run made with a changed non-test
\* file in the workspace)
NoReport == [match |-> FALSE, pct |-> -1]
NoStore == [begun |-> FALSE, all |-> {}, report |-> {}, ts |-> {}, total |-> 0]

\* the locals of an invocation that has not started
IdleExec(job) ==
  [ pc |-> "idle", job |-> job, file |-> NoEnt, clonePath |-> FALSE,
    attempt |-> 0, cur |-> 0, gen |-> NoPath, hasTest |-> FALSE, valid |-> {},
    ws |-> {}, proj |-> "none", log |-> <<>>, thrown |-> NoErr, result |-> "none",
    cleanups |-> 0, commits |-> <<>>, prs |-> 0,
    before |-> 0, last |-> NoReport, seen |-> {}, storing |-> NoStore,
    tainted |-> FALSE ]

\* SqliteJobRepository.save on an existing id: ON CONFLICT(id) DO UPDATE
SaveRow_keepStatus(row, job) ==
  [row EXCEPT !.progress = job.progress, !.error = job.error,
              !.filesFound = job.filesFound,
              !.filesBelowThreshold = job.filesBelowThreshold, !.prUrl = job.prUrl]

SaveRow(row, job) ==
  [row EXCEPT !.status = job.status, !.progress = job.progress, !.error = job.error,
              !.filesFound = job.filesFound,
              !.filesBelowThreshold = job.filesBelowThreshold, !.prUrl = job.prUrl]

\* the string that JavaScript's || treats like null
Empty == ""

\* SqliteJobRepository.save on a new id: the values bound by stmt.run
InsertRow(job) ==
  [job EXCEPT !.prUrl = IF job.prUrl = Empty THEN Null ELSE job.prUrl]

\* SqliteJobRepository.mapToEntity, through Job.reconstitute and the
\* constructor's defaults: `props.error || null`, `row.pr_url ? ... : null`
\* (`progress || 0` and the two counts map every number to itself)
mapToEntity(row) ==
  [row EXCEPT !.error = IF row.error = Empty THEN Null ELSE row.error,
              !.prUrl = IF row.prUrl = Empty THEN Null ELSE row.prUrl]

\* the jobs table of one id after save(job)
saveJob(table, job) ==
  IF table = <<>> THEN <<InsertRow(job)>> ELSE <<SaveRow(table[1], job)>>

jobRepoSave(c) ==
  IF c.exc # NoErr THEN c
  ELSE IF (c.n + 1) \in c.bad THEN [c EXCEPT !.n = @ + 1, !.exc = ErrDb]
  ELSE [c EXCEPT !.n = @ + 1, !.db[c.id] = SaveRow(@, c.x.job)]

\* coverageFileRepo.save: upsert by id under UNIQUE(repository_id, path)
coverageFileRepoSave(c, f) ==
  IF c.exc # NoErr THEN c
  ELSE IF f.id \in DOMAIN c.cf
       THEN [c EXCEPT !.cf[f.id] = [status |-> f.status, pct |-> f.pct]]
  ELSE IF \E o \in DOMAIN c.cf : o[1] = f.id[1] /\ o[2] = f.id[2]
       THEN Throw(c, ErrUnique)
  ELSE [c EXCEPT !.cf = [i \in DOMAIN c.cf \cup {f.id} |->
                           IF i = f.id THEN [status |-> f.status, pct |-> f.pct]
                           ELSE c.cf[i]]]

emitProgress(c, progress) ==
  IF c.exc # NoErr THEN c ELSE [c EXCEPT !.x.log = Append(@, progress)]

jobUpdateProgress(c, progress) ==
  IF c.exc # NoErr THEN c
  ELSE LET r == updateProgress(c.x.job, progress)
       IN IF r.err # NoErr THEN Throw(c, r.err) ELSE [c EXCEPT !.x.job = r.job]

updateAndSaveProgress(c, progress) ==
  emitProgress(jobRepoSave(jobUpdateProgress(c, progress)), progress)

jobStart(c) ==
  IF c.exc # NoErr THEN c
  ELSE LET r == start(c.x.job)
       IN IF r.err # NoErr THEN Throw(c, r.err) ELSE [c EXCEPT !.x.job = r.job]

\* the finally block: cleanupWorkDir is awaited when a workspace was acquired
\* the locals declared inside the try block go out of scope
LeaveTry(x) ==
  [x EXCEPT !.file = NoEnt, !.attempt = 0, !.cur = 0, !.gen = NoPath,
            !.hasTest = FALSE, !.valid = {}, !.proj = "none"]

finally_skipOnThrow(c) ==
  [c EXCEPT !.x = [LeaveTry(@) EXCEPT
                     !.result = IF c.exc = NoErr THEN "returned" ELSE "threw",
                     !.pc = IF c.x.clonePath /\ c.exc = NoErr THEN "cleanup" ELSE "done"]]

finally(c) ==
  [c EXCEPT !.x = [LeaveTry(@) EXCEPT
                     !.result = IF c.exc = NoErr THEN "returned" ELSE "threw",
                     !.pc = IF c.x.clonePath THEN "cleanup" ELSE "done"]]

\* the catch block up to the job save, shared by both pipelines
catchFail(c) ==
  LET msg == c.exc
      c0 == [c EXCEPT !.exc = NoErr,
                      !.x.thrown = IF c.x.thrown = NoErr THEN msg ELSE @]
      r == fail(c0.x.job, msg)
  IN jobRepoSave(IF r.err # NoErr THEN Throw(c0, r.err) ELSE [c0 EXCEPT !.x.job = r.job])

\* the reset of the target file in the catch block of executeImprovementJob
resetTarget_missing(c) == c

resetTarget(c) ==
  IF c.exc # NoErr THEN c
  ELSE LET f == c.x.job.fileId
       IN IF f # NoFile /\ f \in DOMAIN c.cf
          THEN coverageFileRepoSave(c, resetToPending(FileEntity(f, c.cf[f])))
          ELSE c

catchImprovement(c) == finally(emitProgress(resetTarget(catchFail(c)), 0))

catchAnalysis(c) == finally(emitProgress(catchFail(c), 0))

\* end of a step of the try block: go on, or run catch and finally
EndImprovementStep(c) == IF c.exc = NoErr THEN c ELSE catchImprovement(c)
EndAnalysisStep(c) == IF c.exc = NoErr THEN c ELSE catchAnalysis(c)

Goto(c, pc) == IF c.exc # NoErr THEN c ELSE [c EXCEPT !.x.pc = pc]

\* outcomes of processNextJob
NoTick == "no tick"           \* the last step was not a tick
ReturnedNull == "null"        \* return null: no pending job, or it is blocked
Executed == "executeJob"      \* return this.executeJob(job)

CommitAs(c, outcome) ==
  /\ jobs' = c.db
  /\ files' = c.cf
  /\ exec' = [exec EXCEPT ![c.id] = c.x]
  /\ tick' = outcome
  /\ UNCHANGED <<ent, env, call>>

Commit(c) == CommitAs(c, NoTick)

\* ---- the inputs of the environment ------------------------------------
Single == env = "single"
\* the environments that set AI_MAX_RETRIES, by the value they set
RetryConfigs ==
  [n \in 1..MaxConfiguredRetries |->
     CASE n = 1 -> "AI_MAX_RETRIES=1" [] n = 2 -> "AI_MAX_RETRIES=2"
       [] n = 3 -> "AI_MAX_RETRIES=3" [] n = 4 -> "AI_MAX_RETRIES=4"
       [] OTHER -> "AI_MAX_RETRIES=5"]
Configured == \E n \in DOMAIN RetryConfigs : env = RetryConfigs[n]
\* which jobRepo.save calls of a step throw
SaveFaults == IF Single THEN SUBSET {1, 2, 3} ELSE {{}}
Queue == env = "queue"
TwoTests == env = "tests"
JobLimit == IF Single \/ TwoTests \/ Configured THEN 1 ELSE IF Queue THEN MaxQueue ELSE MaxJobs
\* a collaborator resolves or rejects
StageOutcomes == IF Queue THEN {TRUE} ELSE BOOLEAN
\* repoRepository.findById finds the repository of an improvement job
RepoInputs == IF Queue \/ TwoTests THEN {TRUE} ELSE BOOLEAN
\* generateTests resolves, or rejects with the error of the provider
AiOutcomes ==
  IF Queue THEN {NoErr}
  ELSE IF Single THEN {NoErr, ErrAi, ErrAiTimeout}
  ELSE {NoErr, ErrAi}
\* the report of a test run of an improvement job: an entry matches the
\* file, and the percentage it (or the total) carries
MatchInputs == IF Queue THEN {TRUE} ELSE BOOLEAN
CoverageInputs == IF Queue THEN {90} ELSE Percentages
\* findProjectDirectory: none, or one with or without a test script
ProjInputs == IF Queue THEN {"script"} ELSE {"none", "script", "noscript"}
\* agent output
WriteInputs ==
  IF Single THEN SUBSET AgentPaths
  ELSE IF TwoTests THEN SUBSET TestPaths
  ELSE {{TestPath}}
ContentInputs == IF Single \/ TwoTests THEN BOOLEAN ELSE {TRUE}  \* content is valid
\* the test files an attempt wrote with content that passes the check
GoodInputs(writes) ==
  LET tests == {f \in writes : isTestFile(f)}
  IN IF Single \/ TwoTests THEN SUBSET tests ELSE {tests}
GitInputs == IF Single THEN BOOLEAN ELSE {TRUE}         \* the git commands succeed
SurviveInputs == IF Single THEN SUBSET {SourcePath, NotesPath} ELSE {{}}
HasTestInputs == IF Single \/ TwoTests THEN BOOLEAN ELSE {FALSE}    \* a test file exists already

\* ============================================== executeImprovementJob ==

\* this.maxRetries = parseInt(process.env.AI_MAX_RETRIES || '3', 10)
maxRetries ==
  IF Configured THEN CHOOSE n \in DOMAIN RetryConfigs : env = RetryConfigs[n]
  ELSE DefaultMaxRetries
coverageThreshold == DefaultCoverageThreshold

\* try block up to the await of clone; found: repoRepository.findById
\* returned the repository
improvementBegin_lateCheck(c, found) ==
  LET c1 == emitProgress(jobRepoSave(jobStart(c)), 5)
      f == c.x.job.fileId
      c2 == updateAndSaveProgress(c1, 10)
      c3 == IF c2.exc # NoErr THEN c2 ELSE [c2 EXCEPT !.x.clonePath = TRUE]
  IN IF c3.exc # NoErr THEN c3
     ELSE IF ~found THEN Throw(c3, ErrRepoNotFound)
     ELSE IF f \notin DOMAIN c3.cf THEN Throw(c3, ErrFileNotFound)
     ELSE [c3 EXCEPT !.x.file = FileEntity(f, c3.cf[f]),
                     !.x.before = c3.cf[f].pct, !.x.pc = "clone"]

improvementBegin(c, found) ==
  LET c1 == emitProgress(jobRepoSave(jobStart(c)), 5)
      f == c.x.job.fileId
      c2 == IF c1.exc # NoErr THEN c1
            ELSE IF ~found THEN Throw(c1, ErrRepoNotFound)
            ELSE IF f \notin DOMAIN c1.cf THEN Throw(c1, ErrFileNotFound)
            ELSE [c1 EXCEPT !.x.file = FileEntity(f, c1.cf[f]),
                            !.x.before = c1.cf[f].pct]
      c3 == updateAndSaveProgress(c2, 10)
  IN IF c3.exc # NoErr THEN c3
     ELSE [c3 EXCEPT !.x.clonePath = TRUE, !.x.pc = "clone"]

\* head of the while loop: a new attempt up to the await of generateTests, or
\* the loop is left
loopHead_noLimit(c) ==
  IF c.exc # NoErr THEN c
  ELSE IF c.x.cur < coverageThreshold
       THEN LET a == c.x.attempt + 1
                progressBase == 25 + (a - 1) * 20
            IN Goto(updateAndSaveProgress([c EXCEPT !.x.attempt = a], progressBase), "ai")
       ELSE [c EXCEPT !.x.pc = "after"]

loopHead_noThreshold(c) ==
  IF c.exc # NoErr THEN c
  ELSE IF c.x.attempt < maxRetries
       THEN LET a == c.x.attempt + 1
                progressBase == 25 + (a - 1) * 20
            IN Goto(updateAndSaveProgress([c EXCEPT !.x.attempt = a], progressBase), "ai")
       ELSE [c EXCEPT !.x.pc = "after"]

loopHead(c) ==
  IF c.exc # NoErr THEN c
  ELSE IF c.x.attempt < maxRetries /\ c.x.cur < coverageThreshold
       THEN LET a == c.x.attempt + 1
                progressBase == 25 + (a - 1) * 20
            IN Goto(updateAndSaveProgress([c EXCEPT !.x.attempt = a], progressBase), "ai")
       ELSE [c EXCEPT !.x.pc = "after"]

getChangedFiles(ws, git) == IF git THEN ws ELSE {}

\* resetNonTestFiles: checkout, else rm, of every changed non-test file;
\* survive: the files neither command could restore
resetNonTestFiles(c, git, survive) ==
  IF c.exc # NoErr THEN c
  ELSE LET nonTestFiles == {f \in getChangedFiles(c.x.ws, git) : ~isTestFile(f)}
       IN [c EXCEPT !.x.ws = @ \ (nonTestFiles \ survive)]

\* the invalid-files check after the remediation
invalidFiles(changedFiles) == {f \in changedFiles : ~isTestFile(f)}

\* after the loop: validation, containment, up to the await of commitAndPush
afterLoop(c, gitReset, survive, gitAfter) ==
  IF c.exc # NoErr \/ c.x.pc # "after" THEN c
  ELSE IF c.x.gen = NoPath THEN Throw(c, ErrNoTest)
  ELSE LET c1 == resetNonTestFiles(updateAndSaveProgress(c, 70), gitReset, survive)
           changedFiles == getChangedFiles(c1.x.ws, gitAfter)
           c2 == IF c1.exc # NoErr THEN c1
                 ELSE IF invalidFiles(changedFiles) # {} THEN Throw(c1, ErrInvalidFiles)
                 ELSE c1
           c3 == updateAndSaveProgress(c2, 80)
       IN IF c3.exc # NoErr THEN c3
          ELSE [c3 EXCEPT !.x.commits = Append(@, changedFiles), !.x.pc = "commit"]

\* isValidTestContent of the file at generatedTestPath
isValidTestContent(x) == x.gen \in x.valid

\* newTestFiles[0]: git lists the modified tracked files before the untracked
\* ones, each list sorted by path
firstTestFile(newTestFiles, hasTest) ==
  IF hasTest /\ TestPath \in newTestFiles THEN TestPath
  ELSE IF SpecPath \in newTestFiles THEN SpecPath
  ELSE TestPath

\* after generateTests returned: the checks of the attempt, up to the await
\* of runTestsWithCoverage, or `continue`
afterGenerate(c, writes, good, git) ==
  IF c.exc # NoErr THEN c
  ELSE LET ws == c.x.ws \cup writes
           c1 == [c EXCEPT !.x.ws = ws,
                           !.x.valid = (@ \ writes) \cup good]
           newTestFiles == {f \in getChangedFiles(ws, git) : isTestFile(f)}
           exists == c.x.hasTest \/ TestPath \in ws
       IN IF ~exists /\ newTestFiles = {}
          THEN IF c1.x.attempt < maxRetries THEN loopHead(c1)
               ELSE Throw(c1, ErrNoTestFile)
          ELSE LET c2 == [c1 EXCEPT !.x.gen = IF newTestFiles # {}
                                              THEN firstTestFile(newTestFiles, c.x.hasTest)
                                              ELSE TestPath]
               IN IF ~isValidTestContent(c2.x)
                  THEN IF c2.x.attempt < maxRetries THEN loopHead(c2)
                       ELSE Throw(c2, ErrInvalidContent)
                  ELSE Goto(updateAndSaveProgress(c2, 25 + (c2.x.attempt - 1) * 20 + 10),
                            "tests")

\* after the test run: the coverage of the target file, then break or loop
afterCoverage(c, match, pct) ==
  IF c.exc # NoErr THEN c
  ELSE LET c0 == [c EXCEPT !.x.last = [match |-> match, pct |-> pct]]
           c1 == IF match
                 THEN LET f == updateCoverage(c0.x.file, pct)
                          t == \E g \in c0.x.ws : ~isTestFile(g)
                      IN coverageFileRepoSave(
                           [c0 EXCEPT !.x.cur = pct, !.x.file = f,
                                      !.x.tainted = @ \/ t], f)
                 ELSE [c0 EXCEPT !.x.cur = pct]
       IN IF c1.exc # NoErr THEN c1
          ELSE IF c1.x.cur >= coverageThreshold THEN [c1 EXCEPT !.x.pc = "after"]
          ELSE loopHead(c1)

\* after createPullRequest returned: completion
improvementComplete(c) ==
  IF c.exc # NoErr THEN c
  ELSE LET r == completeImprovement(c.x.job, PrUrl)
           c1 == jobRepoSave(IF r.err # NoErr THEN Throw(c, r.err)
                             ELSE [c EXCEPT !.x.job = r.job])
           f == markAsImproved(c.x.file, c.x.cur)
           c2 == coverageFileRepoSave(IF c1.exc # NoErr THEN c1
                                      ELSE [c1 EXCEPT !.x.file = f], f)
       IN emitProgress(c2, 100)

\* ---- the steps of a running improvement job -----------------------------
Running(j, type, pc) ==
  /\ j \in DOMAIN jobs
  /\ jobs[j].type = type
  /\ exec[j].pc = pc

ImpAfterClone(j) ==
  /\ Running(j, "improvement", "clone")
  /\ \E ok \in StageOutcomes, bad \in SaveFaults :
       LET c == IF ok THEN Ctx(j, bad) ELSE Throw(Ctx(j, bad), ErrClone)
       IN Commit(EndImprovementStep(Goto(updateAndSaveProgress(c, 15), "install")))

ImpAfterInstall(j) ==
  /\ Running(j, "improvement", "install")
  /\ \E ok \in StageOutcomes, bad \in SaveFaults :
       LET c == IF ok THEN Ctx(j, bad) ELSE Throw(Ctx(j, bad), ErrInstall)
       IN Commit(EndImprovementStep(Goto(updateAndSaveProgress(c, 20), "branch")))

ImpAfterBranch(j) ==
  /\ Running(j, "improvement", "branch")
  /\ \E ok \in StageOutcomes, bad \in SaveFaults, srcExists \in BOOLEAN,
        hasTest \in HasTestInputs, valid \in ContentInputs :
       LET c0 == Ctx(j, bad)
           c1 == IF ~ok THEN Throw(c0, ErrBranch)
                 ELSE IF ~srcExists THEN Throw(c0, ErrSourceMissing)
                 ELSE [c0 EXCEPT !.x.hasTest = hasTest,
                                 !.x.valid = IF hasTest /\ valid THEN {TestPath} ELSE {},
                                 !.x.attempt = 0, !.x.cur = c0.x.file.pct]
       IN Commit(EndImprovementStep(afterLoop(loopHead(c1), TRUE, {}, TRUE)))

ImpAfterGenerate(j) ==
  /\ Running(j, "improvement", "ai")
  /\ \E out \in AiOutcomes, bad \in SaveFaults, writes \in WriteInputs,
        git \in GitInputs :
       \E good \in GoodInputs(writes) :
         LET c == IF out = NoErr THEN Ctx(j, bad) ELSE Throw(Ctx(j, bad), out)
         IN Commit(EndImprovementStep(afterGenerate(c, writes, good, git)))

ImpAfterTests(j) ==
  /\ Running(j, "improvement", "tests")
  /\ \E ok \in StageOutcomes, bad \in SaveFaults, match \in MatchInputs,
        pct \in CoverageInputs,
        gitReset \in GitInputs, survive \in SurviveInputs, gitAfter \in GitInputs :
       LET c == IF ok THEN Ctx(j, bad) ELSE Throw(Ctx(j, bad), ErrTests)
       IN Commit(EndImprovementStep(
            afterLoop(afterCoverage(c, match, pct), gitReset, survive, gitAfter)))

ImpAfterCommit(j) ==
  /\ Running(j, "improvement", "commit")
  /\ \E ok \in StageOutcomes, bad \in SaveFaults :
       LET c == IF ok THEN Ctx(j, bad) ELSE Throw(Ctx(j, bad), ErrPush)
           c1 == updateAndSaveProgress(c, 90)
           c2 == IF c1.exc # NoErr THEN c1
                 ELSE [c1 EXCEPT !.x.prs = @ + 1, !.x.pc = "pr"]
       IN Commit(EndImprovementStep(c2))

ImpAfterPullRequest(j) ==
  /\ Running(j, "improvement", "pr")
  /\ \E ok \in StageOutcomes, bad \in SaveFaults :
       LET c == IF ok THEN Ctx(j, bad) ELSE Throw(Ctx(j, bad), ErrPr)
           c1 == improvementComplete(c)
       IN Commit(IF c1.exc = NoErr THEN finally(c1) ELSE catchImprovement(c1))

\* the await of cleanupWorkDir in the finally block returns
Cleanup(j) ==
  /\ j \in DOMAIN jobs
  /\ exec[j].pc = "cleanup"
  /\ exec' = [exec EXCEPT ![j].cleanups = @ + 1, ![j].pc = "done", ![j].ws = {}]
  /\ tick' = NoTick
  /\ UNCHANGED <<jobs, files, ent, env, call>>

\* ================================================= executeAnalysisJob ==

\* try block up to the await of clone (the repository record exists)
analysisBegin(c) ==
  LET c1 == emitProgress(emitProgress(jobRepoSave(jobStart(c)), 5), 10)
  IN IF c1.exc # NoErr THEN c1
     ELSE [c1 EXCEPT !.x.clonePath = TRUE, !.x.pc = "clone"]

\* an entry of a coverage report: path, linesCovered, linesTotal, the
\* percentage of the two, and the uncovered line numbers
Entry(path, linesCovered, linesTotal, uncoveredLines) ==
  [ path |-> path, pct |-> (linesCovered * 100) \div linesTotal,
    linesCovered |-> linesCovered, linesTotal |-> linesTotal,
    uncoveredLines |-> uncoveredLines ]
Half == Entry(SourcePath, 1, 2, <<2>>)
Most == Entry(SourcePath, 9, 10, <<10>>)

\* a coverage report: a set of entries; the source files enumerated in the
\* checkout that it does not mention are added with 0 %
ReportInputs ==
  IF Queue THEN {{Half}}
  ELSE {{}, {Half}, {Most}}
       \cup (IF Single THEN {{Half, Entry(OtherPath, 9, 10, <<10>>)}} ELSE {})
\* findAllTypeScriptFiles(clonePath): the source files of the checkout
TsFileInputs ==
  IF Queue THEN {{SourcePath}}
  ELSE IF Single THEN SUBSET {SourcePath, OtherPath}
  ELSE SUBSET {SourcePath}

addMissing_none(report, allTsFiles) == report

addMissing_all(report, allTsFiles) ==
  report \cup {Entry(f, 0, 1, <<1>>) : f \in allTsFiles}

addMissing(report, allTsFiles) ==
  report \cup {Entry(f, 0, 1, <<1>>) : f \in allTsFiles \ {e.path : e \in report}}

RECURSIVE Sum(_, _)
Sum(S, field) ==
  IF S = {} THEN 0
  ELSE LET e == CHOOSE e \in S : TRUE IN e[field] + Sum(S \ {e}, field)

\* the mean of the per-file percentages, in hundredths of a percent
totalCoverage_mean(all) ==
  IF all = {} THEN 0 ELSE (Sum(all, "pct") * 100) \div Cardinality(all)

\* totalLines > 0 ? Math.round((totalCovered / totalLines) * 100 * 100) / 100 : 0
\* in hundredths of a percent
totalCoverage(all) ==
  LET totalCovered == Sum(all, "linesCovered")
      totalLines == Sum(all, "linesTotal")
  IN IF totalLines > 0
     THEN (2 * totalCovered * 10000 + totalLines) \div (2 * totalLines)
     ELSE 0

\* the writes that follow deleteByRepositoryId are the CoverageFile saves in
\* the order of the sorted report, then repositoryRepo.save; NoStop: none of
\* them throws, k: the write after k successful saves throws
NoStop == -1
StoreStops(all) == IF Single THEN {NoStop} \cup (0..Cardinality(all)) ELSE {NoStop}

\* the first n entries of the report sorted by ascending percentage
Prefix(all, n) ==
  CHOOSE S \in SUBSET all :
    /\ Cardinality(S) = n
    /\ \A a \in S, b \in all \ S : a.pct <= b.pct

\* deleteByRepositoryId, then one CoverageFile.create + save for each of the
\* first n entries of the report
replaceCoverage(cf, r, report, j, n) ==
  LET kept == {i \in DOMAIN cf : FileRepo(i) # r}
      new == {FileId(r, e.path, j) : e \in Prefix(report, n)}
  IN [i \in kept \cup new |->
        IF i \in kept THEN cf[i]
        ELSE [status |-> "pending",
              pct |-> (CHOOSE e \in report : e.path = i[2]).pct]]

\* from the enumeration of the source files to the return of the try block
analysisStore(c, report, allTsFiles, stop) ==
  IF c.exc # NoErr THEN c
  ELSE LET all == addMissing(report, allTsFiles)
           n == IF stop = NoStop THEN Cardinality(all) ELSE stop
           c1 == emitProgress(jobRepoSave(jobUpdateProgress(c, 80)), 80)
           c2 == IF c1.exc # NoErr THEN c1
                 ELSE [c1 EXCEPT !.cf = replaceCoverage(@, c.x.job.repositoryId, all, c.id, n),
                                 !.x.storing = [begun |-> TRUE, all |-> all, report |-> report,
                                                 ts |-> allTsFiles,
                                                 total |-> totalCoverage(all)],
                                 !.exc = IF stop = NoStop THEN NoErr ELSE ErrStore]
           below == Cardinality({e \in all : e.pct < coverageThreshold})
           r == completeAnalysis(c2.x.job, Cardinality(all), below)
           c3 == jobRepoSave(IF c2.exc # NoErr THEN c2
                             ELSE IF r.err # NoErr THEN Throw(c2, r.err)
                             ELSE [c2 EXCEPT !.x.job = r.job])
       IN emitProgress(c3, 100)

EndAnalysisReturn(c) == IF c.exc = NoErr THEN finally(c) ELSE catchAnalysis(c)

\* after clone: findProjectDirectory; without a project directory the report
\* is empty and the job goes straight to the enumeration
AnaAfterClone(j) ==
  /\ Running(j, "analysis", "clone")
  /\ \E ok \in StageOutcomes, bad \in SaveFaults, proj \in ProjInputs,
        allTsFiles \in TsFileInputs :
       LET c == IF ok THEN Ctx(j, bad) ELSE Throw(Ctx(j, bad), ErrClone)
           c1 == emitProgress(jobRepoSave(jobUpdateProgress(c, 20)), 20)
       IN IF proj = "none"
          THEN \E stop \in StoreStops(addMissing({}, allTsFiles)) :
                 Commit(EndAnalysisReturn(analysisStore(c1, {}, allTsFiles, stop)))
          ELSE Commit(EndAnalysisStep(
                 Goto(IF c1.exc # NoErr THEN c1 ELSE [c1 EXCEPT !.x.proj = proj],
                      "install")))

AnaAfterInstall(j) ==
  /\ Running(j, "analysis", "install")
  /\ \E ok \in StageOutcomes, bad \in SaveFaults :
       LET c == IF ok THEN Ctx(j, bad) ELSE Throw(Ctx(j, bad), ErrInstall)
       IN Commit(EndAnalysisStep(
            Goto(emitProgress(jobRepoSave(jobUpdateProgress(c, 40)), 40), "tests")))

AnaAfterTests(j) ==
  /\ Running(j, "analysis", "tests")
  /\ \E ok \in StageOutcomes, bad \in SaveFaults, report \in ReportInputs,
        allTsFiles \in TsFileInputs :
       LET c == IF ok THEN Ctx(j, bad) ELSE Throw(Ctx(j, bad), ErrTests)
           c1 == emitProgress(jobRepoSave(jobUpdateProgress(c, 60)), 60)
       IN \E stop \in StoreStops(addMissing(report, allTsFiles)) :
            Commit(EndAnalysisReturn(analysisStore(c1, report, allTsFiles, stop)))

\* githubService.getTempDir(job.id): the workspace directory of a job
getTempDir(j) == j

\* an invocation of executeJob for job j is between its start and its return
Executing(j) == exec[j].pc \notin {"idle", "done"}

\* ====================================================== processNextJob ==

Min(S) == CHOOSE i \in S : \A k \in S : i <= k

Pending(db) == {i \in DOMAIN db : db[i].status = "pending"}

\* findPending(1): the oldest pending row
findPending_newest(db) ==
  IF Pending(db) = {} THEN {} ELSE {CHOOSE i \in Pending(db) : \A k \in Pending(db) : k <= i}

findPending(db) ==
  LET pending == Pending(db)
  IN IF pending = {} THEN {} ELSE {Min(pending)}

findRunning(db, type) == {i \in DOMAIN db : db[i].status = "running" /\ db[i].type = type}

\* the two eligibility checks of processNextJob
Blocked_anyRepository(db, j) == findRunning(db, db[j].type) # {}

Blocked_never(db, j) == FALSE

Blocked_always(db, j) == TRUE

Blocked(db, j) ==
  LET runningJobs == findRunning(db, db[j].type)
  IN \/ db[j].type = "analysis" /\ runningJobs # {}
     \/ db[j].type = "improvement"
        /\ \E i \in runningJobs : db[i].repositoryId = db[j].repositoryId

\* one tick of the interval timer
processNextJob ==
  LET pendingJobs == findPending(jobs)
      null == tick' = ReturnedNull /\ UNCHANGED <<jobs, exec, files, ent, env, call>>
  IN IF pendingJobs = {} THEN null
     ELSE LET j == CHOOSE i \in pendingJobs : TRUE
          IN IF Blocked(jobs, j) THEN null
             ELSE \E bad \in SaveFaults :
                    LET c == [Ctx(j, bad) EXCEPT !.x.job = mapToEntity(jobs[j]),
                                                 !.x.seen = Pending(jobs)]
                    IN IF jobs[j].type = "analysis"
                       THEN CommitAs(EndAnalysisStep(analysisBegin(c)), Executed)
                       ELSE \E found \in RepoInputs :
                              CommitAs(EndImprovementStep(improvementBegin(c, found)),
                                       Executed)

\* ================================================== ImprovementService ==

\* the pending or running jobs that findByFileId returns for a file
ActiveJobs(db, f) ==
  {i \in DOMAIN db : db[i].fileId = f /\ db[i].status \in {"pending", "running"}}

Max(S) == CHOOSE i \in S : \A k \in S : k <= i

\* the two tables after startImprovement, the job it returned (0: none),
\* isExisting, and the error it threw
Started(db, cf, job, isExisting, err) ==
  [db |-> db, cf |-> cf, job |-> job, isExisting |-> isExisting, err |-> err]

\* startImprovement(repositoryId, fileId): findByFileId lists the newest job
\* first, and the first pending or running one is returned
startJob(db, cf, f) ==
  IF f \notin DOMAIN cf THEN Started(db, cf, 0, FALSE, ErrFileNotFound)
  ELSE IF ActiveJobs(db, f) # {}
       THEN Started(db, cf, Max(ActiveJobs(db, f)), TRUE, NoErr)
  ELSE Started(Append(db, createImprovement(FileRepo(f), f)),
               [cf EXCEPT ![f] = [status |-> markAsImproving(FileEntity(f, @)).status,
                                  pct |-> @.pct]],
               Len(db) + 1, FALSE, NoErr)

\* a request to improve a file: a new job unless the file has an active one
startImprovement(f) ==
  /\ ActiveJobs(jobs, f) # {} \/ Len(jobs) < JobLimit
  /\ LET r == startJob(jobs, files, f)
     IN /\ jobs' = r.db
        /\ files' = r.cf
        /\ exec' = IF Len(r.db) > Len(jobs)
                   THEN Append(exec, IdleExec(r.db[Len(r.db)]))
                   ELSE exec
  /\ tick' = NoTick
  /\ UNCHANGED <<ent, env, call>>

ErrJobNotFound == "Job not found"
ErrCannotCancel == "Cannot cancel job"
CancelMessage == "Cancelled by user"

\* the two tables after cancel(jobId), and the error it threw
Cancelled(db, cf, err) == [db |-> db, cf |-> cf, err |-> err]

cancelJob_noReset(db, cf, j) ==
  IF j \notin DOMAIN db THEN Cancelled(db, cf, ErrJobNotFound)
  ELSE IF db[j].status \notin {"pending", "running"}
       THEN Cancelled(db, cf, ErrCannotCancel)
  ELSE LET r == fail(mapToEntity(db[j]), CancelMessage)
       IN IF r.err # NoErr THEN Cancelled(db, cf, r.err)
          ELSE Cancelled([db EXCEPT ![j] = SaveRow(@, r.job)], cf, NoErr)

cancelJob(db, cf, j) ==
  IF j \notin DOMAIN db THEN Cancelled(db, cf, ErrJobNotFound)
  ELSE IF db[j].status \notin {"pending", "running"}
       THEN Cancelled(db, cf, ErrCannotCancel)
  ELSE LET r == fail(mapToEntity(db[j]), CancelMessage)
           f == r.job.fileId
       IN IF r.err # NoErr THEN Cancelled(db, cf, r.err)
          ELSE Cancelled([db EXCEPT ![j] = SaveRow(@, r.job)],
                         IF f # NoFile /\ f \in DOMAIN cf
                         THEN [cf EXCEPT ![f].status = "pending"]
                         ELSE cf,
                         NoErr)

\* cancel(jobId), for a known or an unknown id
cancel(j) ==
  /\ LET r == cancelJob(jobs, files, j)
     IN jobs' = r.db /\ files' = r.cf
  /\ tick' = NoTick
  /\ UNCHANGED <<exec, ent, env, call>>

\* an analysis request: Job.createAnalysis and jobRepo.save
requestAnalysis(r) ==
  /\ Len(jobs) < JobLimit
  /\ jobs' = Append(jobs, createAnalysis(r))
  /\ exec' = Append(exec, IdleExec(createAnalysis(r)))
  /\ tick' = NoTick
  /\ UNCHANGED <<files, ent, env, call>>

\* ============================================ ClaudeProvider.callClaude ==
\* One invocation: the promise (outcome, settled once), the subprocess (proc,
\* and the exit code it closed with), the timer, whether SIGTERM was sent and
\* whether the error event was emitted; n: the number of the invocation;
\* settles: how often resolve or reject was called; stdout, stderr: whether
\* the subprocess has written to the stream.

ExitCodes == {0, 1, 2}

Spawn(n) ==
  [ n |-> n, outcome |-> "pending", proc |-> "running", code |-> -1,
    timer |-> "armed", signalled |-> FALSE, errored |-> FALSE, settles |-> 0,
    stdout |-> FALSE, stderr |-> FALSE ]

NotCalled == [Spawn(0) EXCEPT !.proc = "none", !.timer = "none"]

\* resolve / reject of a promise: only the first call has an effect
Settle_last(c, outcome) == [c EXCEPT !.outcome = outcome, !.settles = @ + 1]

Settle(c, outcome) ==
  [c EXCEPT !.outcome = IF @ = "pending" THEN outcome ELSE @, !.settles = @ + 1]

clearTimeout(c) == [c EXCEPT !.timer = IF @ = "armed" THEN "cleared" ELSE @]

OnlyCall == UNCHANGED <<jobs, exec, files, ent, env, tick>>

\* generateTests calls callClaude: spawn, setTimeout
CallClaude ==
  /\ call.n < maxRetries
  /\ call.outcome # "pending" \/ call.n = 0
  /\ call' = Spawn(call.n + 1)
  /\ OnlyCall

\* proc.stdout.on('data') and proc.stderr.on('data')
ProcWrites ==
  /\ call.proc = "running"
  /\ \/ call' = [call EXCEPT !.stdout = TRUE]
     \/ call' = [call EXCEPT !.stderr = TRUE]
  /\ OnlyCall

\* the timeout callback: proc.kill('SIGTERM'), reject
TimerFires ==
  /\ call.timer = "armed"
  /\ call' = Settle([call EXCEPT !.timer = "fired", !.signalled = TRUE], "timeout")
  /\ OnlyCall

\* proc.on('close'): clearTimeout, then resolve on exit code 0 or 1, else reject
ProcCloses ==
  /\ call.proc = "running"
  /\ \E code \in ExitCodes :
       call' = Settle(clearTimeout([call EXCEPT !.proc = "closed", !.code = code]),
                      IF code \in {0, 1} THEN "resolved" ELSE "failed")
  /\ OnlyCall

\* proc.on('error'): clearTimeout, reject
ProcErrors ==
  /\ call.proc = "running"
  /\ ~call.errored
  /\ call' = Settle(clearTimeout([call EXCEPT !.errored = TRUE]), "failed")
  /\ OnlyCall

\* ============================================================ behaviour ==

NoCall == Called("none", 0, Ret(createAnalysis("r1"), NoErr))

\* two analysed repositories, nothing requested yet
Analysed == [i \in {FileId(r, SourcePath, 0) : r \in Repos} |->
               [status |-> "pending", pct |-> 50]]

Idle ==
  /\ jobs = <<>>
  /\ exec = <<>>
  /\ files = Analysed
  /\ ent = NoCall
  /\ tick = NoTick
  /\ call = NotCalled

Init == Idle /\ env = "fleet"

InitOne == Idle /\ env = "single"

InitQueue == Idle /\ env = "queue"

InitTests == Idle /\ env = "tests"

InitRetries == Idle /\ \E n \in DOMAIN RetryConfigs : env = RetryConfigs[n]

JobIds == 1..MaxQueue

Next ==
  \/ processNextJob
  \/ \E r \in Repos : requestAnalysis(r)
  \/ \E f \in DOMAIN files : startImprovement(f)
  \/ \E j \in JobIds : cancel(j)
  \/ \E j \in JobIds : ImpAfterClone(j)
  \/ \E j \in JobIds : ImpAfterInstall(j)
  \/ \E j \in JobIds : ImpAfterBranch(j)
  \/ \E j \in JobIds : ImpAfterGenerate(j)
  \/ \E j \in JobIds : ImpAfterTests(j)
  \/ \E j \in JobIds : ImpAfterCommit(j)
  \/ \E j \in JobIds : ImpAfterPullRequest(j)
  \/ \E j \in JobIds : AnaAfterClone(j)
  \/ \E j \in JobIds : AnaAfterInstall(j)
  \/ \E j \in JobIds : AnaAfterTests(j)
  \/ \E j \in JobIds : Cleanup(j)

Spec == Init /\ [][Next]_vars

SpecOne == InitOne /\ [][Next]_vars

\* one job run by a processor with a configured number of attempts
SpecRetries == InitRetries /\ [][Next]_vars

\* one job whose agent writes test files only, under either naming convention
SpecTests == InitTests /\ [][Next]_vars

\* the scheduler under load: no cancellation, no failing collaborator
NextQueue ==
  \/ processNextJob
  \/ \E r \in Repos : requestAnalysis(r)
  \/ \E f \in DOMAIN files : startImprovement(f)
  \/ \E j \in JobIds : ImpAfterClone(j)
  \/ \E j \in JobIds : ImpAfterInstall(j)
  \/ \E j \in JobIds : ImpAfterBranch(j)
  \/ \E j \in JobIds : ImpAfterGenerate(j)
  \/ \E j \in JobIds : ImpAfterTests(j)
  \/ \E j \in JobIds : ImpAfterCommit(j)
  \/ \E j \in JobIds : ImpAfterPullRequest(j)
  \/ \E j \in JobIds : AnaAfterClone(j)
  \/ \E j \in JobIds : AnaAfterInstall(j)
  \/ \E j \in JobIds : AnaAfterTests(j)
  \/ \E j \in JobIds : Cleanup(j)

SpecQueue == InitQueue /\ [][NextQueue]_vars

\* ------------------------------------------- direct calls on one entity --
ProgressInputs == {-1, 0, 10, 50, 100, 101}
CountInputs == {0, 2}
MessageInputs == {"Cancelled by user", "clone failed", Empty}
UrlInputs == {"https://github.com/o/r/pull/1"}
FileA(r) == FileId(r, SourcePath, 0)

InitJob ==
  /\ jobs = <<>>
  /\ exec = <<>>
  /\ files = <<>>
  /\ env = "entity"
  /\ tick = NoTick
  /\ call = NotCalled
  /\ \E r \in Repos :
       \E j \in {createAnalysis(r), createImprovement(r, FileA(r))} :
         ent = Called("create", 0, Ret(j, NoErr))

CallStart ==
  /\ ent' = Called("start", 0, start(ent.job))
  /\ UNCHANGED <<jobs, exec, files, env, tick, call>>

CallUpdateProgress ==
  /\ \E p \in ProgressInputs : ent' = Called("updateProgress", p, updateProgress(ent.job, p))
  /\ UNCHANGED <<jobs, exec, files, env, tick, call>>

CallCompleteAnalysis ==
  /\ \E n \in CountInputs : ent' = Called("completeAnalysis", n, completeAnalysis(ent.job, n, 0))
  /\ UNCHANGED <<jobs, exec, files, env, tick, call>>

CallCompleteImprovement ==
  /\ \E u \in UrlInputs : ent' = Called("completeImprovement", 0, completeImprovement(ent.job, u))
  /\ UNCHANGED <<jobs, exec, files, env, tick, call>>

CallFail ==
  /\ \E m \in MessageInputs : ent' = Called("fail", 0, fail(ent.job, m))
  /\ UNCHANGED <<jobs, exec, files, env, tick, call>>

\* jobRepo.save(job) and, after it, jobRepo.findById(job.id), on the table of
\* this id
CallSave ==
  /\ jobs' = saveJob(jobs, ent.job)
  /\ ent' = Called("save", 0, Ret(ent.job, NoErr))
  /\ UNCHANGED <<exec, files, env, tick, call>>

CallFindById ==
  /\ jobs # <<>>
  /\ jobs = saveJob(jobs, ent.job)      \* read back the job just saved
  /\ ent' = Called("findById", 0, Ret(mapToEntity(jobs[1]), NoErr))
  /\ UNCHANGED <<jobs, exec, files, env, tick, call>>

NextJob ==
  \/ CallSave
  \/ CallFindById
  \/ CallStart
  \/ CallUpdateProgress
  \/ CallCompleteAnalysis
  \/ CallCompleteImprovement
  \/ CallFail

SpecJob == InitJob /\ [][NextJob]_vars

\* ------------------------------------------- the invocations of the agent --
InitAgent ==
  /\ jobs = <<>>
  /\ exec = <<>>
  /\ files = <<>>
  /\ ent = NoCall
  /\ env = "agent"
  /\ tick = NoTick
  /\ call = NotCalled

NextAgent ==
  \/ CallClaude
  \/ ProcWrites
  \/ TimerFires
  \/ ProcCloses
  \/ ProcErrors

SpecAgent == InitAgent /\ [][NextAgent]_vars

\* ================================================================ claims ==

\* C1 (as stated): in every reachable state at most one job of type analysis
\* has persisted status running.
C1_OneRunningAnalysis == Cardinality(findRunning(jobs, "analysis")) <= 1

\* C2 (as stated): in every reachable state, for every repository, at most one
\* improvement job of that repository has persisted status running.
C2_OneRunningImprovementPerRepository ==
  \A r \in Repos :
    Cardinality({i \in findRunning(jobs, "improvement") : jobs[i].repositoryId = r}) <= 1

\* C3 (as stated): every path handed to commitAndPush is a test file, and when
\* a changed non-test file is still in the workspace after the remediation,
\* neither commitAndPush nor createPullRequest has been called for the job.
C3_OnlyTestFilesCommitted ==
  \A j \in DOMAIN exec :
    /\ \A k \in DOMAIN exec[j].commits : \A f \in exec[j].commits[k] : isTestFile(f)
    /\ (\E f \in exec[j].ws : ~isTestFile(f))
         => exec[j].commits = <<>> /\ exec[j].prs = 0

C5_TerminalRaisesInvalidTransition ==
  [][ /\ (ent'.job.status # ent.job.status =>
            <<ent.job.status, ent'.job.status>> \in
               { <<"pending", "running">>, <<"running", "completed">>,
                 <<"running", "failed">>, <<"pending", "failed">> })
      /\ (ent.job.status \in Terminal
            /\ ent'.op \in {"start", "completeAnalysis", "completeImprovement", "fail"}
          => ent'.err = ErrTransition /\ ent'.job.status = ent.job.status) ]_vars

\* The error a call on a terminal job raises: the type guard of a completion
\* method comes before the transition check.
TerminalError(type, op) ==
  IF op = "completeAnalysis" /\ type # "analysis" THEN ErrNotAnalysis
  ELSE IF op = "completeImprovement" /\ type # "improvement" THEN ErrNotImprovement
  ELSE ErrTransition

\* C5 (amended): the status only changes along pending->running,
\* running->completed, running->failed, pending->failed; on a completed or
\* failed job every one of the four methods raises an error and leaves the
\* status unchanged - the invalid-transition error, except that the completion
\* method of the other job type raises its type-guard error.
C5_TerminalImmutable ==
  [][ /\ (ent'.job.status # ent.job.status =>
            <<ent.job.status, ent'.job.status>> \in
               { <<"pending", "running">>, <<"running", "completed">>,
                 <<"running", "failed">>, <<"pending", "failed">> })
      /\ (ent.job.status \in Terminal
            /\ ent'.op \in {"start", "completeAnalysis", "completeImprovement", "fail"}
          => /\ ent'.err = TerminalError(ent.job.type, ent'.op)
             /\ ent'.job.status = ent.job.status) ]_vars

\* start() was called on a completed job and raised the invalid-transition error
C5_Witness ==
  ent.op = "start" /\ ent.job.status = "completed" /\ ent.err = ErrTransition

\* C6 (as stated): once the persisted status of a job is completed or failed,
\* no step changes it.
C6_TerminalStatusIsFinal ==
  [][ \A j \in DOMAIN jobs :
        jobs[j].status \in Terminal => jobs'[j].status = jobs[j].status ]_vars

\* C7 (as stated): an execution in which something threw has returned
\* normally, and the job it held is failed with the message of the first
\* thrown error.
C7_FailuresAreSwallowed ==
  \A j \in DOMAIN exec :
    exec[j].pc \in {"cleanup", "done"} /\ exec[j].thrown # NoErr
    => /\ exec[j].result = "returned"
       /\ exec[j].job.status = "failed"
       /\ exec[j].job.error = exec[j].thrown

\* C8: cleanupWorkDir is never called twice, and an execution that is over
\* has called it exactly once if it acquired a workspace directory (and not at
\* all otherwise), whether it returned or threw.
C8_CleanupExactlyOnce ==
  \A j \in DOMAIN exec :
    /\ exec[j].cleanups <= 1
    /\ exec[j].pc = "done" => exec[j].cleanups = IF exec[j].clonePath THEN 1 ELSE 0

\* the failure handler itself threw, and the workspace was cleaned up once
C8_Witness ==
  \E j \in DOMAIN exec :
    /\ exec[j].pc = "done" /\ exec[j].result = "threw"
    /\ exec[j].clonePath /\ exec[j].cleanups = 1

\* C9 (as stated): the progress values of one execution, in the order they
\* are persisted and emitted, never decrease.
C9_ProgressNeverRegresses ==
  \A j \in DOMAIN exec :
    \A k \in 1..(Len(exec[j].log) - 1) : exec[j].log[k] <= exec[j].log[k + 1]

\* C10: progress is always within [0,100]; updateProgress on a job that is
\* not running, or with a value outside [0,100], raises an error and leaves
\* progress and status unchanged.
C10_ProgressGuarded ==
  /\ [](ent.job.progress \in 0..100)
  /\ [][ ent'.op = "updateProgress"
          /\ (ent.job.status # "running" \/ ent'.arg \notin 0..100)
        => /\ ent'.err \in {ErrNotRunning, ErrRange}
           /\ ent'.job.progress = ent.job.progress
           /\ ent'.job.status = ent.job.status ]_vars

\* updateProgress(101) was called on a running job and raised the range error
C10_Witness ==
  /\ ent.op = "updateProgress" /\ ent.arg = 101
  /\ ent.job.status = "running" /\ ent.err = ErrRange

\* C11 (as stated): the step in which the persisted status of an improvement
\* job becomes completed leaves its CoverageFile, when the row exists, with
\* status improved and with the percentage the last parsed report carried for
\* the file, or with the percentage it had when the job loaded it if that
\* report had no entry matching the file.
C11_ImprovedWithLastMatchedCoverage ==
  [][ \A j \in DOMAIN jobs :
        /\ jobs[j].type = "improvement"
        /\ jobs[j].status # "completed"
        /\ jobs'[j].status = "completed"
        /\ jobs[j].fileId \in DOMAIN files'
        => /\ files'[jobs[j].fileId].status = "improved"
           /\ exec'[j].last # NoReport
           /\ files'[jobs[j].fileId].pct =
                IF exec'[j].last.match THEN exec'[j].last.pct ELSE exec'[j].before ]_vars

\* C12: every job that processNextJob has started was, at the moment it was
\* selected, the earliest created of all jobs whose persisted status was
\* pending.
C12_StartsOldestPending ==
  \A j \in DOMAIN exec :
    exec[j].pc # "idle" =>
      /\ j \in exec[j].seen
      /\ \A k \in exec[j].seen : j <= k

\* a job was started while another, younger job was pending too
C12_Witness ==
  \E j \in DOMAIN exec : exec[j].pc # "idle" /\ Cardinality(exec[j].seen) = 2

\* C13 (as stated): a tick returns null without starting a job only when no
\* younger pending job is eligible behind a blocked oldest pending job.
C13_StartsYoungerEligible ==
  tick = ReturnedNull =>
    ~ /\ Pending(jobs) # {}
      /\ Blocked(jobs, Min(Pending(jobs)))
      /\ \E k \in Pending(jobs) : ~Blocked(jobs, k)

C15_NoEligibleJobNoEffect ==
  /\ [][ tick' # NoTick
          /\ (Pending(jobs) = {} \/ Blocked(jobs, Min(Pending(jobs))))
        => tick' = ReturnedNull /\ UNCHANGED <<jobs, files, exec>> ]_vars
  /\ [][ \A j \in DOMAIN jobs :
            jobs[j].type = "analysis" /\ exec[j].pc = "idle" /\ exec'[j].pc # "idle"
            => findRunning(jobs, "analysis") = {} ]_vars

\* a tick returned null with one analysis job running and another one pending
C15_Witness ==
  /\ tick = ReturnedNull
  /\ \E i, j \in DOMAIN jobs :
       /\ jobs[i].type = "analysis" /\ jobs[i].status = "running"
       /\ jobs[j].type = "analysis" /\ jobs[j].status = "pending"
       /\ exec[j].pc = "idle"

\* the CoverageFile rows of a repository
RepoRows(cf, r) == [i \in {k \in DOMAIN cf : FileRepo(k) = r} |-> cf[i]]

\* C16 (as stated): when an analysis job is over and failed (in the table or
\* in memory), the CoverageFile rows of its repository are those stored
\* before the job started.
C16_FailedAnalysisKeepsCoverage ==
  \A j \in DOMAIN jobs :
    /\ jobs[j].type = "analysis"
    /\ exec[j].pc \in {"cleanup", "done"}
    /\ jobs[j].status = "failed" \/ exec[j].job.status = "failed"
    => RepoRows(files, jobs[j].repositoryId) = RepoRows(Analysed, jobs[j].repositoryId)

\* the rows an analysis job stores for its repository when it stores them all
StoredBy(j) == {FileId(jobs[j].repositoryId, e.path, j) : e \in exec[j].storing.all}

\* C17 (as stated): in every state the CoverageFile rows of a repository are
\* a complete set: the rows of the analysis that preceded the behaviour, or
\* all the rows of the report some analysis job stored - never the old rows
\* deleted with only part of the new set inserted.
C17_ReplacementIsAtomic ==
  \A r \in Repos :
    LET rows == DOMAIN RepoRows(files, r)
    IN \/ rows = DOMAIN RepoRows(Analysed, r)
       \/ \E j \in DOMAIN jobs :
            /\ jobs[j].type = "analysis" /\ jobs[j].repositoryId = r
            /\ exec[j].storing.begun
            /\ rows = StoredBy(j)

\* C18 (as stated): no coverage value is stored in the CoverageFile from a
\* test run made while a changed non-test file was in the workspace.
C18_CoverageFromCleanWorkspace ==
  \A j \in DOMAIN exec : ~exec[j].tainted

\* C19 (as stated): an improvement job in whose workspace no test file was
\* changed by any attempt never reaches commitAndPush or createPullRequest,
\* and leaves the try block failed.
C19_NoTestChangeFailsTheJob ==
  \A j \in DOMAIN exec :
    (jobs[j].type = "improvement"
       /\ exec[j].pc \in {"commit", "pr", "cleanup"}
       /\ ~\E f \in exec[j].ws : isTestFile(f))
      => /\ exec[j].commits = <<>>
         /\ exec[j].prs = 0
         /\ exec[j].job.status = "failed"

\* C20 (as stated): every test file in the list handed to commitAndPush has
\* content that passes isValidTestContent.
C20_CommittedTestsPassContentCheck ==
  \A j \in DOMAIN exec :
    (exec[j].pc \in {"commit", "pr"} /\ exec[j].commits # <<>>)
      => \A f \in exec[j].commits[Len(exec[j].commits)] :
           isTestFile(f) => f \in exec[j].valid

\* C21: the attempt counter of an improvement job never exceeds maxRetries;
\* generateTests is invoked again only by the next attempt, while fewer than
\* maxRetries attempts were made and the measured coverage is below the
\* threshold; an attempt goes on to the test run only with an existing, valid
\* test file; and the missing-file and invalid-content errors are raised only
\* on attempt maxRetries.
C21_AtMostMaxRetriesAttempts ==
  [][ \A j \in DOMAIN exec :
        LET x == exec[j]
            y == exec'[j]
        IN /\ y.attempt <= maxRetries
           /\ (y.pc = "ai" /\ (x.pc # "ai" \/ x.attempt # y.attempt))
                => /\ y.attempt = x.attempt + 1
                   /\ x.attempt < maxRetries
                   /\ y.cur < coverageThreshold
           /\ (x.pc = "ai" /\ y.pc = "tests")
                => /\ y.gen \in y.valid
                   /\ y.hasTest \/ \E f \in y.ws : isTestFile(f)
           /\ (x.pc = "ai" /\ y.thrown \in {ErrNoTestFile, ErrInvalidContent})
                => x.attempt = maxRetries ]_vars

\* a job whose last attempt left invalid test content, after the retries
C21_Witness ==
  \E j \in DOMAIN exec :
    exec[j].thrown = ErrInvalidContent /\ jobs[j].status = "failed"

\* C22 (as stated): a timeout of the AI agent fails the job only when it
\* occurs on attempt maxRetries; on an earlier attempt the job goes on.
C22_TimeoutConsumesOneAttempt ==
  [][ \A j \in DOMAIN exec :
        (exec[j].pc = "ai" /\ exec'[j].thrown = ErrAiTimeout)
          => exec[j].attempt = maxRetries ]_vars

\* C23: completeAnalysis called on an improvement job raises its job-type
\* error, completeImprovement called on an analysis job raises its own, and
\* either call leaves every field of the job as it was, in any status.
C23_WrongTypeCompletionRejected ==
  [][ /\ (ent'.op = "completeAnalysis" /\ ent.job.type = "improvement")
           => ent'.err = ErrNotAnalysis /\ ent'.job = ent.job
      /\ (ent'.op = "completeImprovement" /\ ent.job.type = "analysis")
           => ent'.err = ErrNotImprovement /\ ent'.job = ent.job ]_vars

\* completeAnalysis was refused on a running improvement job
C23_Witness ==
  /\ ent.op = "completeAnalysis" /\ ent.err = ErrNotAnalysis
  /\ ent.job.type = "improvement" /\ ent.job.status = "running"

\* C24: in every reachable state, cancel of a pending or running job raises
\* no error, leaves that job failed with error 'Cancelled by user', the other
\* jobs as they were, and the CoverageFile the job targets (when it exists)
\* pending, the other files as they were; cancel of an unknown id or of a
\* completed or failed job raises an error and changes no job and no file.
C24_CancelOnlyActiveJobs ==
  \A j \in JobIds :
    LET r == cancelJob(jobs, files, j)
    IN IF j \in DOMAIN jobs /\ jobs[j].status \in {"pending", "running"}
       THEN /\ r.err = NoErr
            /\ r.db[j].status = "failed" /\ r.db[j].error = CancelMessage
            /\ \A i \in DOMAIN jobs \ {j} : r.db[i] = jobs[i]
            /\ DOMAIN r.cf = DOMAIN files
            /\ \A f \in DOMAIN files :
                 r.cf[f] = IF f = jobs[j].fileId
                           THEN [files[f] EXCEPT !.status = "pending"]
                           ELSE files[f]
       ELSE r.err # NoErr /\ r.db = jobs /\ r.cf = files

\* a running improvement job was cancelled, its file is pending again, and a
\* second cancel of it is refused
C24_Witness ==
  \E j \in DOMAIN jobs :
    /\ jobs[j].status = "failed" /\ jobs[j].error = CancelMessage
    /\ exec[j].pc \notin {"idle", "done"}
    /\ jobs[j].fileId \in DOMAIN files /\ files[jobs[j].fileId].status = "pending"
    /\ cancelJob(jobs, files, j).err = ErrCannotCancel

\* C25 (as stated): in every reachable state at most one pending or running
\* improvement job targets a given CoverageFile, and startImprovement for a
\* file that has an active job returns that job, adds no job and changes no
\* CoverageFile.
C25_OneActiveJobPerFile ==
  /\ \A i, k \in DOMAIN jobs :
       (/\ jobs[i].type = "improvement" /\ jobs[k].type = "improvement"
        /\ jobs[i].status \in {"pending", "running"}
        /\ jobs[k].status \in {"pending", "running"}
        /\ jobs[i].fileId = jobs[k].fileId) => i = k
  /\ \A f \in DOMAIN files :
       ActiveJobs(jobs, f) # {}
         => LET r == startJob(jobs, files, f)
            IN /\ r.isExisting /\ r.job \in ActiveJobs(jobs, f)
               /\ r.db = jobs /\ r.cf = files

NotFound == {ErrRepoNotFound, ErrFileNotFound}

\* C26: an improvement job whose CoverageFile is gone when it is started
\* fails with a not-found error, and a not-found error is raised only by the
\* step that starts the job: that step leaves the job failed with the message
\* recorded, acquires no workspace, makes no clone, never reaches the agent,
\* calls no cleanup and changes no CoverageFile, except that the failure
\* handler puts the target file, when it exists, back to pending.
C26_NotFoundFailsBeforeSideEffects ==
  [][ \A j \in DOMAIN exec :
        LET x == exec[j]
            y == exec'[j]
        IN /\ (jobs[j].type = "improvement" /\ x.pc = "idle" /\ y.pc # "idle"
                  /\ jobs[j].fileId \notin DOMAIN files)
                => y.thrown \in NotFound
           /\ (x.thrown = NoErr /\ y.thrown \in NotFound)
                => /\ x.pc = "idle" /\ y.pc = "done"
                   /\ jobs'[j].status = "failed" /\ jobs'[j].error = y.thrown
                   /\ ~y.clonePath /\ y.ws = {} /\ y.cleanups = 0
                   /\ y.commits = <<>> /\ y.prs = 0
                   /\ files' = IF jobs[j].fileId \in DOMAIN files
                               THEN [files EXCEPT ![jobs[j].fileId].status = "pending"]
                               ELSE files ]_vars

\* an improvement job whose file was replaced by an analysis before it started
C26_Witness ==
  \E j \in DOMAIN jobs :
    /\ jobs[j].status = "failed" /\ jobs[j].error = ErrFileNotFound
    /\ exec[j].pc = "done" /\ ~exec[j].clonePath

\* C27: two jobs that are being executed at the same time have different
\* workspace directories, and a job that processNextJob can select (its row
\* is pending) has no execution in progress, so no second invocation starts
\* for a job while an earlier one still runs.
C27_ExclusiveWorkspace ==
  /\ \A i, k \in DOMAIN exec :
       (i # k /\ Executing(i) /\ Executing(k)) => getTempDir(i) # getTempDir(k)
  /\ \A j \in DOMAIN jobs : jobs[j].status = "pending" => ~Executing(j)

\* a job is executed a second time, after an execution that ended by throwing
C27_Witness ==
  \E j \in DOMAIN exec :
    exec[j].pc = "clone" /\ exec[j].result = "threw"

\* C28 (as stated): a step in which an analysis job deletes and replaces the
\* CoverageFile rows of a repository is never taken while an improvement job
\* of that repository is running, and a step in which an improvement job
\* saves its CoverageFile is never taken while a running analysis job of the
\* same repository has begun to replace the rows.
C28_NoConcurrentWriters ==
  [][ \A a, i \in DOMAIN exec :
        (/\ jobs[a].type = "analysis" /\ jobs[i].type = "improvement"
         /\ jobs[a].repositoryId = jobs[i].repositoryId)
        => /\ (~exec[a].storing.begun /\ exec'[a].storing.begun)
                => ~(jobs[i].status = "running" /\ Executing(i))
           /\ (exec'[i].file # exec[i].file /\ Executing(i))
                => ~(jobs[a].status = "running" /\ exec[a].storing.begun
                       /\ Executing(a)) ]_vars

\* C29: within one invocation the outcome, once delivered, never changes;
\* the timer fires only while no outcome is delivered, and then the
\* subprocess is sent SIGTERM and the outcome is the timeout failure, which a
\* later close with any exit code leaves in place; a close or an error event
\* that comes first clears the timer, and a cleared timer never fires.
C29_OneOutcomePerInvocation ==
  [][ call'.n = call.n
        => /\ call.outcome # "pending" => call'.outcome = call.outcome
           /\ (call.timer = "armed" /\ call'.timer = "fired")
                => /\ call.outcome = "pending"
                   /\ call'.signalled /\ call'.outcome = "timeout"
           /\ (call.timer = "armed" /\ (call'.proc # call.proc \/ call'.errored # call.errored))
                => call'.timer = "cleared" /\ call'.outcome # "timeout"
           /\ call.timer = "cleared" => call'.timer = "cleared" /\ ~call'.signalled ]_vars

\* the timer fired, and the subprocess closed afterwards with exit code 0
C29_Witness ==
  /\ call.outcome = "timeout" /\ call.signalled
  /\ call.proc = "closed" /\ call.code = 0 /\ call.settles = 2

\* the fields of a job agree with its status; x: the invocation that ran it
Agrees(job, x) ==
  /\ job.status = "completed"
       => /\ job.progress = 100
          /\ job.type = "improvement" => job.prUrl # Null
          /\ job.type = "analysis"
               => /\ x.storing.begun
                  /\ job.filesFound = Cardinality(x.storing.all)
                  /\ job.filesBelowThreshold =
                       Cardinality({e \in x.storing.all : e.pct < coverageThreshold})
  /\ job.status = "failed" => job.error # Null

\* C30: in every reachable state, every row of the jobs table and every Job
\* object held by an invocation agrees with its status: completed means
\* progress 100, for an improvement job a pull-request URL, for an analysis
\* job the counts of the report it stored; failed means an error message.
C30_FieldsAgreeWithStatus ==
  \A j \in DOMAIN jobs : Agrees(jobs[j], exec[j]) /\ Agrees(exec[j].job, exec[j])

\* a completed analysis job and a completed improvement job
C30_Witness ==
  \E a, i \in DOMAIN jobs :
    /\ jobs[a].type = "analysis" /\ jobs[a].status = "completed"
    /\ jobs[a].filesFound = 1
    /\ jobs[i].type = "improvement" /\ jobs[i].status = "completed"

\* C31: whatever sequence of transitions and saves led to the job and to its
\* row, saving the job and reading it back by id gives a job with the same
\* type, repository, status, progress, error and result fields, and saving
\* over an existing row leaves its type, repository and target file alone.
C31_SaveThenFindByIdAgree ==
  env = "entity"
    => LET table == saveJob(jobs, ent.job)
           found == mapToEntity(table[1])
       IN /\ found = ent.job
          /\ jobs # <<>>
               => /\ table[1].type = jobs[1].type
                  /\ table[1].repositoryId = jobs[1].repositoryId
                  /\ table[1].fileId = jobs[1].fileId

\* the paths a report mentions
Paths(report) == {e.path : e \in report}

\* C32: when an analysis job begins to store its file list, every enumerated
\* source file that the report does not mention is in the list exactly once,
\* with 0 %, no covered line and uncovered lines <<1>>; a file the report
\* mentions is in the list only with its report entry; and when the job
\* completes in that step, the stored row of each added file carries 0 %.
C32_MissingFilesAddedOnce ==
  [][ \A j \in DOMAIN jobs :
        (~exec[j].storing.begun /\ exec'[j].storing.begun)
          => LET st == exec'[j].storing
                 r == jobs[j].repositoryId
             IN /\ \A f \in st.ts \ Paths(st.report) :
                     /\ {e \in st.all : e.path = f} = {Entry(f, 0, 1, <<1>>)}
                     /\ jobs'[j].status = "completed"
                          => /\ FileId(r, f, j) \in DOMAIN files'
                             /\ files'[FileId(r, f, j)].pct = 0
                /\ \A f \in Paths(st.report) :
                     {e \in st.all : e.path = f} \subseteq st.report
                /\ Paths(st.all) = Paths(st.report) \cup st.ts ]_vars

\* a completed analysis whose report mentioned one of the two source files
C32_Witness ==
  \E j \in DOMAIN jobs :
    /\ jobs[j].type = "analysis" /\ jobs[j].status = "completed"
    /\ exec[j].storing.report = {Half}
    /\ exec[j].storing.ts = {SourcePath, OtherPath}
    /\ files[FileId(jobs[j].repositoryId, OtherPath, j)].pct = 0
    /\ files[FileId(jobs[j].repositoryId, SourcePath, j)].pct = 50

\* C33: the aggregate coverage an analysis computes for its final file list
\* is the sum of the covered lines over the sum of the total lines, as a
\* percentage rounded to two decimals (here in hundredths of a percent), and
\* 0 when the list has no lines; files (8,10) and (0,5) give 53.33 %, not the
\* 40 % that the mean of 80 % and 0 % would give.
C33_AggregateIsRatioOfSums ==
  /\ \A j \in DOMAIN jobs :
        exec[j].storing.begun
          => LET st == exec[j].storing
                 totalCovered == Sum(st.all, "linesCovered")
                 totalLines == Sum(st.all, "linesTotal")
                 d == st.total * totalLines - 10000 * totalCovered
             IN IF totalLines = 0 THEN st.total = 0
                ELSE 2 * d <= totalLines /\ -2 * d <= totalLines
  /\ LET two == {Entry(SourcePath, 8, 10, <<9, 10>>), Entry(OtherPath, 0, 5, <<1>>)}
     IN totalCoverage(two) = 5333 /\ totalCoverage_mean(two) = 4000

\* a completed analysis of two files with 1 of 2 and 9 of 10 lines covered:
\* 83.33 %, where the mean of 50 % and 90 % is 70 %
C33_Witness ==
  \E j \in DOMAIN jobs :
    /\ jobs[j].type = "analysis" /\ jobs[j].status = "completed"
    /\ exec[j].storing.all = {Half, Entry(OtherPath, 9, 10, <<10>>)}
    /\ exec[j].storing.total = 8333

\* C34: when the clone of an analysis job has succeeded and no project
\* directory is found, the job goes to its end in the same step without an
\* install or a test run: it is completed, its report was empty, and every
\* enumerated source file has a stored row at 0 % and is counted in the job.
C34_NoProjectStillCompletes ==
  [][ \A j \in DOMAIN jobs :
        ( /\ jobs[j].type = "analysis" /\ exec[j].pc = "clone"
          /\ exec'[j].pc \notin {"clone", "install"}
          /\ exec'[j].thrown # ErrClone )
          => LET st == exec'[j].storing
                 r == jobs[j].repositoryId
             IN /\ exec'[j].proj = "none"
                /\ exec'[j].pc \notin {"install", "tests"}
                /\ jobs'[j].status = "completed" /\ jobs'[j].error = Null
                /\ st.begun /\ st.report = {}
                /\ jobs'[j].filesFound = Cardinality(st.ts)
                /\ jobs'[j].filesBelowThreshold = Cardinality(st.ts)
                /\ \A f \in st.ts :
                     /\ FileId(r, f, j) \in DOMAIN files'
                     /\ files'[FileId(r, f, j)].pct = 0 ]_vars

\* an analysis completed without a project directory, with one source file
C34_Witness ==
  \E j \in DOMAIN jobs :
    /\ jobs[j].type = "analysis" /\ jobs[j].status = "completed"
    /\ exec[j].proj = "none" /\ exec[j].storing.begun
    /\ exec[j].storing.ts = {SourcePath} /\ jobs[j].filesFound = 1
    /\ FileId(jobs[j].repositoryId, SourcePath, j) \in DOMAIN files

\* C35: no job is left running once its pipeline has ended: when the
\* invocation of executeJob for a job has returned or thrown, the persisted
\* status of the job is not running.
C35_NoJobLeftRunning ==
  \A j \in DOMAIN jobs : exec[j].pc = "done" => jobs[j].status # "running"

\* C36: a pending job does not wait behind other jobs for ever. While a job
\* is pending no younger pending job is started ahead of it, and once it is
\* the oldest pending job a tick leaves it pending only when a running job of
\* its type blocks it (any running analysis for an analysis job, a running
\* improvement of the same repository for an improvement job): with ticks
\* that keep firing and running jobs that end, it is started or cancelled.
C36_PendingJobsAreReached ==
  [][ \A j \in DOMAIN jobs :
        jobs[j].status = "pending"
          => /\ \A k \in DOMAIN jobs :
                  (k > j /\ jobs[k].status = "pending" /\ exec[k].pc = "idle")
                    => exec'[k].pc = "idle"
             /\ ( /\ tick' # NoTick
                  /\ \A k \in Pending(jobs) : j <= k
                  /\ \A i \in DOMAIN jobs :
                       ~ /\ jobs[i].status = "running" /\ jobs[i].type = jobs[j].type
                         /\ (jobs[j].type = "improvement"
                               => jobs[i].repositoryId = jobs[j].repositoryId) )
                 => (tick' = Executed /\ jobs'[j].status # "pending"
                     /\ exec'[j].pc # "idle") ]_vars

\* the second of three jobs was started by a tick after the first had ended
\* while the third is still waiting
C36_Witness ==
  /\ Len(jobs) = 3 /\ tick = Executed
  /\ jobs[1].type = "analysis" /\ jobs[1].status \in Terminal
  /\ jobs[2].type = "analysis" /\ jobs[2].status = "running"
  /\ 2 \in exec[2].seen /\ 3 \in exec[2].seen
  /\ jobs[3].status = "pending"

\* C37: in every reachable state, the coverage file targeted by a pending or
\* running improvement job has status improving.
C37_TargetedFileIsImproving ==
  \A j \in DOMAIN jobs :
    ( /\ jobs[j].type = "improvement"
      /\ jobs[j].status \in {"pending", "running"}
      /\ jobs[j].fileId \in DOMAIN files )
      => files[jobs[j].fileId].status = "improving"

\* C38: when createPullRequest has succeeded for an improvement job, the
\* step that follows leaves the job persisted as completed with the URL of
\* that pull request.
C38_OpenedPullRequestIsRecorded ==
  [][ \A j \in DOMAIN jobs :
        ( /\ jobs[j].type = "improvement" /\ exec[j].pc = "pr"
          /\ exec'[j].pc # "pr" /\ exec'[j].thrown # ErrPr )
          => jobs'[j].status = "completed" /\ jobs'[j].prUrl = PrUrl ]_vars

\* C39 (as stated): an improvement job that found its target file at or
\* above the threshold ends failed with 'No test file was generated'.
C39_AboveThresholdEndsNoTest ==
  \A j \in DOMAIN jobs :
    ( /\ jobs[j].type = "improvement" /\ exec[j].pc = "done"
      /\ exec[j].before >= coverageThreshold )
      => jobs[j].status = "failed" /\ jobs[j].error = ErrNoTest

\* C39 (amended): an improvement job that found its target file at or above
\* the threshold never awaits the agent, a test run, a push or a pull
\* request and commits nothing; when its clone, its install and its branch
\* creation have succeeded and the source file exists, the step after the
\* branch creation fails it with 'No test file was generated'.
C39_AboveThresholdSkipsTheLoop ==
  [][ \A j \in DOMAIN jobs :
        (jobs[j].type = "improvement" /\ exec'[j].before >= coverageThreshold)
          => /\ exec'[j].pc \notin {"ai", "tests", "commit", "pr"}
             /\ exec'[j].commits = <<>> /\ exec'[j].prs = 0
             /\ ( /\ exec[j].pc = "branch" /\ exec'[j].pc # "branch"
                  /\ exec'[j].thrown \notin {ErrBranch, ErrSourceMissing} )
                 => /\ exec'[j].thrown = ErrNoTest
                    /\ jobs'[j].status = "failed" /\ jobs'[j].error = ErrNoTest ]_vars

\* a job for a file at 90 % has failed with 'No test file was generated'
C39_Witness ==
  \E j \in DOMAIN jobs :
    /\ jobs[j].type = "improvement" /\ exec[j].before = 90
    /\ exec[j].pc = "done" /\ exec[j].thrown = ErrNoTest
    /\ jobs[j].status = "failed" /\ jobs[j].error = ErrNoTest

\* C40: whatever AI_MAX_RETRIES is configured, no job fails with the progress
\* range error: the progress values of the retry loop stay within 0..100.
C40_LoopProgressInRange ==
  \A j \in DOMAIN jobs :
    exec[j].thrown # ErrRange /\ jobs[j].error # ErrRange

====
